---- MODULE Spec2Model ----
(***************************************************************************)
(* Model of the meeting-emotion analyser: the MeetingAnalyzer page         *)
(* (src/pages/index.tsx) and the CameraComponent                           *)
(* (src/components/CameraComponent.tsx).                                   *)
(*                                                                         *)
(* Every action is one JavaScript task (an event handler, a promise        *)
(* continuation, a timer or an animation frame) followed by the React      *)
(* re-render and the effects that the state change triggers.  Handlers     *)
(* read the state of the latest render.  Only ClassificationQueued leaves  *)
(* its setEmotionData call in updateQueue for a later Render, to follow    *)
(* several completions that arrive between two renders.                    *)
(***************************************************************************)
EXTENDS Integers, Sequences, FiniteSets, TLC

(***************************************************************************)
(* Bounds of the model.                                                    *)
(***************************************************************************)
MaxSessions == 2      \* accepted start requests (getDisplayMedia calls)
MaxTally == 2         \* detections counted in the live tally between resets
MaxInflight == 1      \* classifications in flight at one time
MaxDeletes == 1       \* deleteDoc calls in flight at one time
MaxCount == 10        \* per-label count of the tallies SpecRate starts from
MaxIndex == 3         \* largest arg-max index the classifier output yields
MaxDocs == 3          \* documents of the listings SpecLoad starts from
MaxBatch == 3         \* classifications in flight in the states SpecBatch starts from

(***************************************************************************)
(* Program constants.                                                      *)
(***************************************************************************)
frameDelay == 5

labels == <<"Happy", "Sad", "Angry">>

NameWarning == "Please enter a session name before starting the recording."
ModelWarning == "Failed to load models. Please ensure the model files are available."
ScreenWarning == "Failed to access screen. Please check your permissions."

Names == {"a"}

(***************************************************************************)
(* JavaScript values of a stored document's fields.                        *)
(***************************************************************************)
Str(s) == [t |-> "string", n |-> 0, s |-> s]
Num(n) == [t |-> "number", n |-> n, s |-> ""]
Null == [t |-> "null", n |-> 0, s |-> ""]
Undefined == [t |-> "undefined", n |-> 0, s |-> ""]
Obj(h, s, a) == [t |-> "object", happy |-> h, sad |-> s, angry |-> a]

\* typeof: null is an object
TypeOf(v) == IF v.t = "null" THEN "object" ELSE v.t

ZeroTally == [happy |-> 0, sad |-> 0, angry |-> 0]
Total(e) == e.happy + e.sad + e.angry

VARIABLES
  emotionData,      \* index.tsx:63   live tally
  updateQueue,      \* index.tsx:136  React: arguments of setEmotionData calls that no
                    \*                render has applied yet
  sessions,         \* index.tsx:64   in-memory session list
  isRecording,      \* index.tsx:65
  sessionName,      \* index.tsx:66   session name input
  warningMessage,   \* index.tsx:67
  sessionToDelete,  \* index.tsx:69   id chosen for deletion, 0 = null
  model,            \* CameraComponent.tsx:16  "loading", "loaded" (an InferenceSession), "failed"
  camWarning,       \* CameraComponent.tsx:17  warningMessage of the camera
  srcObject,        \* CameraComponent.tsx:45  index of the stream attached to the video, 0 = null
  streams,          \* CameraComponent.tsx:41  getDisplayMedia calls: "pending", "live", "ended"
  rafId,            \* CameraComponent.tsx:143 the effect's first frame request is pending
  loops,            \* CameraComponent.tsx:134 processLoop callbacks that reschedule themselves,
                    \*                         counted by frameCount % frameDelay
  inflight,         \* CameraComponent.tsx:105 classifications sampled and not yet delivered
  clearTimers,      \* CameraComponent.tsx:53  pending setTimeout callbacks
  store,            \* index.tsx:78   Firestore: documents of the sessions collection
  nextId,           \* index.tsx:193  Firestore: next document id
  fetch,            \* index.tsx:78   getDocs of the mount effect: "pending", "served", "done"
  listing,          \* index.tsx:78   getDocs: the snapshot served
  pendingCreates,   \* index.tsx:193  stopRecording calls suspended at addDoc
  pendingDeletes,   \* index.tsx:120  handleConfirmDelete calls suspended at deleteDoc
  sinceReset,       \* history: valid-label callbacks per label since the last reset
  ignored,          \* history: a callback whose label is none of the three was
                    \*          delivered since the last reset
  windowCount       \* history: valid-label callbacks delivered while recording since the
                    \*          last accepted start

pageVars == <<emotionData, updateQueue, sessions, isRecording, sessionName, warningMessage, sessionToDelete>>
camVars == <<model, camWarning, srcObject, streams, rafId, loops, inflight, clearTimers>>
storeVars == <<store, nextId, fetch, listing, pendingCreates, pendingDeletes>>
histVars == <<sinceReset, ignored, windowCount>>
vars == <<pageVars, camVars, storeVars, histVars>>

(***************************************************************************)
(* Pure functions of the page.                                             *)
(***************************************************************************)

\* CameraComponent.processFrame: labels[highestIndex]; indexOf gives -1 when
\* the maximum is NaN, and an index past the table gives undefined.
labelAt(i) == IF i \in 0..(Len(labels) - 1) THEN labels[i + 1] ELSE "undefined"

\* handleEmotionDetected with the Sad branch counting into happy
handleEmotionDetectedSadAsHappy(prevData, emotion) ==
  IF emotion = "Happy" THEN [prevData EXCEPT !.happy = prevData.happy + 1]
  ELSE IF emotion = "Sad" THEN [prevData EXCEPT !.happy = prevData.happy + 1]
  ELSE IF emotion = "Angry" THEN [prevData EXCEPT !.angry = prevData.angry + 1]
  ELSE prevData

\* handleEmotionDetected counting every other label into angry
handleEmotionDetectedCountsOther(prevData, emotion) ==
  IF emotion = "Happy" THEN [prevData EXCEPT !.happy = prevData.happy + 1]
  ELSE IF emotion = "Sad" THEN [prevData EXCEPT !.sad = prevData.sad + 1]
  ELSE [prevData EXCEPT !.angry = prevData.angry + 1]

\* the updater function handleEmotionDetected hands to setEmotionData
handleEmotionDetected(prevData, emotion) ==
  IF emotion = "Happy" THEN [prevData EXCEPT !.happy = prevData.happy + 1]
  ELSE IF emotion = "Sad" THEN [prevData EXCEPT !.sad = prevData.sad + 1]
  ELSE IF emotion = "Angry" THEN [prevData EXCEPT !.angry = prevData.angry + 1]
  ELSE prevData

\* setEmotionData handed the tally computed from the tally of the render
setEmotionDataArgFromRender(rendered, emotion) ==
  [updater |-> FALSE, emotion |-> emotion, value |-> handleEmotionDetected(rendered, emotion)]

\* handleEmotionDetected: the argument of its setEmotionData call, an updater
\* function of the previous tally closed over the label; it does not read
\* the tally of the render
setEmotionDataArg(rendered, emotion) ==
  [updater |-> TRUE, emotion |-> emotion, value |-> ZeroTally]

\* React: one queued setEmotionData argument applied to the previous state
applyUpdate(prevData, u) ==
  IF u.updater THEN handleEmotionDetected(prevData, u.emotion) ELSE u.value

\* React: the state a render computes from the queue, in the order of the calls
RECURSIVE processUpdateQueue(_, _)
processUpdateQueue(prevData, queue) ==
  IF queue = <<>> THEN prevData
  ELSE processUpdateQueue(applyUpdate(prevData, Head(queue)), Tail(queue))

\* stopRecording: happinessRatio as the fraction <<numerator, denominator>>
happinessRatio(e) ==
  IF Total(e) > 0 THEN <<e.happy, Total(e)>> ELSE <<0, 1>>

\* the comparison with > in place of >=
AtLeastStrict(ratio, num, den) == ratio[1] * den > num * ratio[2]

\* ratio >= num/den, for den > 0
AtLeast(ratio, num, den) == ratio[1] * den >= num * ratio[2]

\* stopRecording: the rating cascade
computeRating(e) ==
  LET r == happinessRatio(e) IN
  IF AtLeast(r, 8, 10) THEN 5
  ELSE IF AtLeast(r, 6, 10) THEN 4
  ELSE IF AtLeast(r, 4, 10) THEN 3
  ELSE IF AtLeast(r, 2, 10) THEN 2
  ELSE 1

\* stopRecording: the record handed to addDoc
newSession(name, e, len) ==
  [name |-> IF name # "" THEN name ELSE "Session " \o ToString(len + 1),
   emotionData |-> e,
   rating |-> Num(computeRating(e))]

\* the document Firestore stores for a new session
ToData(s) ==
  [name |-> Str(s.name),
   emotionData |-> Obj(Num(s.emotionData.happy), Num(s.emotionData.sad), Num(s.emotionData.angry)),
   rating |-> s.rating]

\* fetchSessions: the shape test of one document: "session", "null" (skipped)
\* or "throw" (reading a property of null raises a TypeError)
checkDoc(data) ==
  IF TypeOf(data.name) # "string" THEN "null"
  ELSE IF TypeOf(data.emotionData) # "object" THEN "null"
  ELSE IF data.emotionData.t = "null" THEN "throw"
  ELSE IF TypeOf(data.emotionData.happy) # "number" THEN "null"
  ELSE IF TypeOf(data.emotionData.sad) # "number" THEN "null"
  ELSE IF TypeOf(data.emotionData.angry) # "number" THEN "null"
  ELSE IF ~(data.rating.t = "null" \/ TypeOf(data.rating) = "number") THEN "null"
  ELSE "session"

\* fetchSessions: the Session built from a document that passed the test
toSession(d) ==
  [id |-> d.id,
   name |-> d.data.name.s,
   emotionData |-> [happy |-> d.data.emotionData.happy.n,
                    sad |-> d.data.emotionData.sad.n,
                    angry |-> d.data.emotionData.angry.n],
   rating |-> d.data.rating]

\* fetchSessions: map then filter; <<FALSE, _>> when the map callback threw
fetchedSessions(docs) ==
  IF \E i \in 1..Len(docs) : checkDoc(docs[i].data) = "throw"
  THEN <<FALSE, <<>>>>
  ELSE LET kept == SelectSeq(docs, LAMBDA d : checkDoc(d.data) = "session")
       IN <<TRUE, [i \in 1..Len(kept) |-> toSession(kept[i])]>>

\* handleDeleteSession: the updater function handed to setSessions
deleteFilter(prevSessions, sessionId) ==
  SelectSeq(prevSessions, LAMBDA session : session.id # sessionId)

\* a sequence without its i-th element
RemoveAt(s, i) == [j \in 1..(Len(s) - 1) |-> IF j < i THEN s[j] ELSE s[j + 1]]

Min(a, b) == IF a <= b THEN a ELSE b
Max(a, b) == IF a >= b THEN a ELSE b

\* the effect cleanup of CameraComponent when isRecording turns false
StopTracks(strs, src) == IF src # 0 THEN [strs EXCEPT ![src] = "ended"] ELSE strs

\* RecordingButton: isDisabled
isDisabled == sessionName = ""

(***************************************************************************)
(* Initial states: the page and the camera as mounted, the store holding   *)
(* whatever earlier runs left in it.                                       *)
(***************************************************************************)
StoredDoc(i, name, h, s, a, rating) ==
  [id |-> i, data |-> [name |-> name, emotionData |-> Obj(h, s, a), rating |-> rating]]

InitialStores ==
  { <<>>, <<StoredDoc(1, Str("a"), Num(1), Num(0), Num(0), Num(5))>> }

InitWith(docs) ==
  /\ emotionData = ZeroTally
  /\ updateQueue = <<>>
  /\ sessions = <<>>
  /\ isRecording = FALSE
  /\ sessionName = ""
  /\ warningMessage = ""
  /\ sessionToDelete = 0
  /\ model = "loading"
  /\ camWarning = ""
  /\ srcObject = 0
  /\ streams = <<>>
  /\ rafId = FALSE
  /\ loops = [p \in 0..(frameDelay - 1) |-> 0]
  /\ inflight = 0
  /\ clearTimers = 0
  /\ store = docs
  /\ nextId = Len(docs) + 1
  /\ fetch = "pending"
  /\ listing = <<>>
  /\ pendingCreates = <<>>
  /\ pendingDeletes = <<>>
  /\ sinceReset = ZeroTally
  /\ ignored = FALSE
  /\ windowCount = 0

Init == \E docs \in InitialStores : InitWith(docs)

(***************************************************************************)
(* CameraComponent: loadModels (mount effect).                             *)
(***************************************************************************)
LoadModelsOk ==
  /\ model = "loading"
  /\ model' = "loaded"
  \* effect [model, isRecording]: request the first frame when recording
  /\ rafId' = isRecording
  /\ UNCHANGED <<pageVars, camWarning, srcObject, streams, loops, inflight, clearTimers,
                 storeVars, histVars>>

LoadModelsFail ==
  /\ model = "loading"
  /\ model' = "failed"
  /\ camWarning' = ModelWarning
  /\ UNCHANGED <<pageVars, srcObject, streams, rafId, loops, inflight, clearTimers,
                 storeVars, histVars>>

(***************************************************************************)
(* Page: the session name input.                                           *)
(***************************************************************************)
TypeSessionName(n) ==
  /\ n # sessionName
  /\ sessionName' = n
  /\ UNCHANGED <<emotionData, updateQueue, sessions, isRecording, warningMessage, sessionToDelete,
                 camVars, storeVars, histVars>>

(***************************************************************************)
(* Page: startRecording.  The button routes a click to startRecording when *)
(* isRecording is false and is disabled while the name is empty.           *)
(***************************************************************************)
\* startRecording without its test of the session name
startRecordingUnguarded ==
  /\ Len(streams) < MaxSessions
  /\ isRecording' = TRUE
  /\ warningMessage' = ""
  /\ streams' = Append(streams, "pending")
  /\ rafId' = (model = "loaded")
  /\ windowCount' = 0
  /\ UNCHANGED <<emotionData, updateQueue, sessions, sessionName, sessionToDelete,
                 model, camWarning, srcObject, loops, inflight, clearTimers,
                 storeVars, sinceReset, ignored>>

startRecording ==
  IF sessionName = ""
  THEN /\ warningMessage' = NameWarning
       /\ UNCHANGED <<emotionData, updateQueue, sessions, isRecording, sessionName, sessionToDelete,
                      camVars, storeVars, histVars>>
  ELSE /\ Len(streams) < MaxSessions
       /\ isRecording' = TRUE
       /\ warningMessage' = ""
       \* effect [isRecording]: startVideo calls getDisplayMedia
       /\ streams' = Append(streams, "pending")
       \* effect [model, isRecording]: request the first frame
       /\ rafId' = (model = "loaded")
       /\ windowCount' = 0
       /\ UNCHANGED <<emotionData, updateQueue, sessions, sessionName, sessionToDelete,
                      model, camWarning, srcObject, loops, inflight, clearTimers,
                      storeVars, sinceReset, ignored>>

ClickStart ==
  /\ ~isRecording
  /\ ~isDisabled
  /\ startRecording

\* startRecording called with no session name (the handler's own guard)
StartWithoutName ==
  /\ ~isRecording
  /\ sessionName = ""
  /\ startRecording

(***************************************************************************)
(* Page: stopRecording, up to its await of addDoc.  The page's own         *)
(* mediaRecorderRef and videoRef are never assigned, so lines 161-169 do   *)
(* nothing; the stream is released by the camera's effect.                 *)
(***************************************************************************)
ClickStop ==
  /\ isRecording
  /\ ~isDisabled
  /\ isRecording' = FALSE
  \* effect [isRecording]: stop the attached stream
  /\ streams' = StopTracks(streams, srcObject)
  /\ srcObject' = 0
  \* cleanup of effect [model, isRecording]: cancel the first frame request
  /\ rafId' = FALSE
  /\ pendingCreates' = Append(pendingCreates,
                              [session |-> newSession(sessionName, emotionData, Len(sessions)),
                               id |-> 0,
                               window |-> windowCount])
  /\ UNCHANGED <<emotionData, updateQueue, sessions, sessionName, warningMessage, sessionToDelete,
                 model, camWarning, loops, inflight, clearTimers,
                 store, nextId, fetch, listing, pendingDeletes, histVars>>

\* addDoc: Firestore holds the new document, under the id it assigned,
\* before the promise of addDoc resolves in the page
AddDocWrite(i) ==
  /\ i \in 1..Len(pendingCreates)
  /\ pendingCreates[i].id = 0
  /\ store' = Append(store, [id |-> nextId, data |-> ToData(pendingCreates[i].session)])
  /\ nextId' = nextId + 1
  /\ pendingCreates' = [pendingCreates EXCEPT ![i].id = nextId]
  /\ UNCHANGED <<pageVars, camVars, fetch, listing, pendingDeletes, histVars>>

\* the id of docRef when addDoc resolves
docRefId(i) == IF pendingCreates[i].id # 0 THEN pendingCreates[i].id ELSE nextId

\* stopRecording after addDoc resolved (the document is written in the same
\* step unless AddDocWrite wrote it before)
AddDocResolve(i) ==
  /\ i \in 1..Len(pendingCreates)
  /\ IF pendingCreates[i].id # 0
     THEN UNCHANGED <<store, nextId>>
     ELSE /\ store' = Append(store, [id |-> nextId, data |-> ToData(pendingCreates[i].session)])
          /\ nextId' = nextId + 1
  /\ sessions' = Append(sessions, [id |-> docRefId(i),
                                   name |-> pendingCreates[i].session.name,
                                   emotionData |-> pendingCreates[i].session.emotionData,
                                   rating |-> pendingCreates[i].session.rating])
  /\ pendingCreates' = RemoveAt(pendingCreates, i)
  /\ emotionData' = ZeroTally
  /\ sessionName' = ""
  /\ warningMessage' = ""
  /\ sinceReset' = ZeroTally
  /\ ignored' = FALSE
  /\ UNCHANGED <<updateQueue, isRecording, sessionToDelete, camVars, fetch, listing,
                 pendingDeletes, windowCount>>

\* stopRecording appending the session although addDoc rejected
AddDocRejectKeepsSession(i) ==
  /\ i \in 1..Len(pendingCreates)
  /\ pendingCreates[i].id = 0
  /\ sessions' = Append(sessions, [id |-> 0,
                                   name |-> pendingCreates[i].session.name,
                                   emotionData |-> pendingCreates[i].session.emotionData,
                                   rating |-> pendingCreates[i].session.rating])
  /\ pendingCreates' = RemoveAt(pendingCreates, i)
  /\ emotionData' = ZeroTally
  /\ sessionName' = ""
  /\ warningMessage' = ""
  /\ sinceReset' = ZeroTally
  /\ ignored' = FALSE
  /\ UNCHANGED <<updateQueue, isRecording, sessionToDelete, camVars, store, nextId, fetch,
                 listing, pendingDeletes, windowCount>>

\* stopRecording after addDoc rejected
AddDocReject(i) ==
  /\ i \in 1..Len(pendingCreates)
  /\ pendingCreates[i].id = 0
  /\ pendingCreates' = RemoveAt(pendingCreates, i)
  /\ emotionData' = ZeroTally
  /\ sessionName' = ""
  /\ warningMessage' = ""
  /\ sinceReset' = ZeroTally
  /\ ignored' = FALSE
  /\ UNCHANGED <<updateQueue, sessions, isRecording, sessionToDelete, camVars, store, nextId,
                 fetch, listing, pendingDeletes, windowCount>>

(***************************************************************************)
(* CameraComponent: startVideo's getDisplayMedia promise.                  *)
(***************************************************************************)
GetDisplayMediaResolve(k) ==
  /\ k \in 1..Len(streams)
  /\ streams[k] = "pending"
  /\ streams' = [streams EXCEPT ![k] = "live"]
  /\ srcObject' = k
  /\ UNCHANGED <<pageVars, model, camWarning, rafId, loops, inflight, clearTimers,
                 storeVars, histVars>>

GetDisplayMediaReject(k) ==
  /\ k \in 1..Len(streams)
  /\ streams[k] = "pending"
  /\ camWarning' = ScreenWarning
  /\ clearTimers' = clearTimers + 1
  \* onVideoError: handleVideoError sets isRecording to false
  /\ isRecording' = FALSE
  /\ IF isRecording
     THEN \* the effects of isRecording turning false
          /\ streams' = StopTracks([streams EXCEPT ![k] = "ended"], srcObject)
          /\ srcObject' = 0
          /\ rafId' = FALSE
     ELSE /\ streams' = [streams EXCEPT ![k] = "ended"]
          /\ UNCHANGED <<srcObject, rafId>>
  /\ UNCHANGED <<emotionData, updateQueue, sessions, sessionName, warningMessage, sessionToDelete,
                 model, loops, inflight, storeVars, histVars>>

\* the setTimeout callback of startVideo's catch
WarningTimeout ==
  /\ clearTimers > 0
  /\ clearTimers' = clearTimers - 1
  /\ camWarning' = ""
  /\ UNCHANGED <<pageVars, model, srcObject, streams, rafId, loops, inflight,
                 storeVars, histVars>>

(***************************************************************************)
(* CameraComponent: one animation frame.  Every callback requested before  *)
(* the frame runs: the effect's first request (a new processLoop with      *)
(* frameCount 0) and every processLoop that rescheduled itself.            *)
(***************************************************************************)
\* processFrame calls of this frame
FrameCalls == loops[0] + (IF rafId THEN 1 ELSE 0)

\* faces the calls of this frame can find: none without an attached stream
FacesAvailable ==
  IF FrameCalls > 0 /\ srcObject # 0
  THEN Max(0, Min(MaxInflight - inflight, MaxTally - Total(emotionData) - inflight))
  ELSE 0

processLoop(faces) ==
  /\ inflight' = inflight + faces
  /\ loops' = [p \in 0..(frameDelay - 1) |->
                 loops[(p - 1) % frameDelay]
                 + (IF rafId /\ p = 1 % frameDelay THEN 1 ELSE 0)]
  /\ rafId' = FALSE

AnimationFrame ==
  /\ rafId \/ \E p \in 0..(frameDelay - 1) : loops[p] > 0
  /\ \E faces \in 0..FacesAvailable : processLoop(faces)
  /\ UNCHANGED <<pageVars, model, camWarning, srcObject, streams, clearTimers,
                 storeVars, histVars>>

\* model.run resolved for one face: onEmotionDetected(labels[highestIndex])
ClassificationDone(highestIndex) ==
  /\ inflight > 0
  /\ inflight' = inflight - 1
  /\ LET detectedEmotion == labelAt(highestIndex) IN
     /\ emotionData' = handleEmotionDetected(emotionData, detectedEmotion)
     /\ sinceReset' = CASE detectedEmotion = "Happy" -> [sinceReset EXCEPT !.happy = @ + 1]
                        [] detectedEmotion = "Sad" -> [sinceReset EXCEPT !.sad = @ + 1]
                        [] detectedEmotion = "Angry" -> [sinceReset EXCEPT !.angry = @ + 1]
                        [] OTHER -> sinceReset
     /\ ignored' = (ignored \/ detectedEmotion \notin {"Happy", "Sad", "Angry"})
     /\ windowCount' = IF isRecording /\ detectedEmotion \in {"Happy", "Sad", "Angry"}
                       THEN windowCount + 1 ELSE windowCount
  /\ UNCHANGED <<updateQueue, sessions, isRecording, sessionName, warningMessage,
                 sessionToDelete, model, camWarning, srcObject, streams, rafId, loops,
                 clearTimers, storeVars>>

\* model.run resolved for one face and onEmotionDetected was called while
\* React has not yet rendered the updates queued before it
ClassificationQueued(highestIndex) ==
  /\ inflight > 0
  /\ Len(updateQueue) < MaxBatch
  /\ inflight' = inflight - 1
  /\ LET detectedEmotion == labelAt(highestIndex) IN
     /\ updateQueue' = Append(updateQueue, setEmotionDataArg(emotionData, detectedEmotion))
     /\ sinceReset' = CASE detectedEmotion = "Happy" -> [sinceReset EXCEPT !.happy = @ + 1]
                        [] detectedEmotion = "Sad" -> [sinceReset EXCEPT !.sad = @ + 1]
                        [] detectedEmotion = "Angry" -> [sinceReset EXCEPT !.angry = @ + 1]
                        [] OTHER -> sinceReset
     /\ ignored' = (ignored \/ detectedEmotion \notin {"Happy", "Sad", "Angry"})
     /\ windowCount' = IF isRecording /\ detectedEmotion \in {"Happy", "Sad", "Angry"}
                       THEN windowCount + 1 ELSE windowCount
  /\ UNCHANGED <<emotionData, sessions, isRecording, sessionName, warningMessage,
                 sessionToDelete, model, camWarning, srcObject, streams, rafId, loops,
                 clearTimers, storeVars>>

\* React renders the page: the queued updates are applied
Render ==
  /\ updateQueue # <<>>
  /\ emotionData' = processUpdateQueue(emotionData, updateQueue)
  /\ updateQueue' = <<>>
  /\ UNCHANGED <<sessions, isRecording, sessionName, warningMessage, sessionToDelete,
                 camVars, storeVars, histVars>>

(***************************************************************************)
(* Page: fetchSessions (mount effect).                                     *)
(***************************************************************************)
\* Firestore reads the collection
GetDocsServe ==
  /\ fetch = "pending"
  /\ fetch' = "served"
  /\ listing' = store
  /\ UNCHANGED <<pageVars, camVars, store, nextId, pendingCreates, pendingDeletes, histVars>>

setFetched(docs) ==
  IF fetchedSessions(docs)[1] THEN fetchedSessions(docs)[2] ELSE sessions

GetDocsResolve ==
  /\ fetch = "served"
  /\ fetch' = "done"
  /\ listing' = <<>>
  /\ sessions' = setFetched(listing)
  /\ UNCHANGED <<emotionData, updateQueue, isRecording, sessionName, warningMessage, sessionToDelete,
                 camVars, store, nextId, pendingCreates, pendingDeletes, histVars>>

GetDocsReject ==
  /\ fetch = "pending"
  /\ fetch' = "done"
  /\ UNCHANGED <<pageVars, camVars, store, nextId, listing, pendingCreates, pendingDeletes,
                 histVars>>

(***************************************************************************)
(* Page: deleting a session.                                               *)
(***************************************************************************)
ClickDelete(i) ==
  /\ i \in 1..Len(sessions)
  /\ sessionToDelete # sessions[i].id
  /\ sessionToDelete' = sessions[i].id
  /\ UNCHANGED <<emotionData, updateQueue, sessions, isRecording, sessionName, warningMessage,
                 camVars, storeVars, histVars>>

handleCancelDelete ==
  /\ sessionToDelete # 0
  /\ sessionToDelete' = 0
  /\ UNCHANGED <<emotionData, updateQueue, sessions, isRecording, sessionName, warningMessage,
                 camVars, storeVars, histVars>>

\* handleConfirmDelete up to the await of deleteDoc
handleConfirmDelete ==
  /\ sessionToDelete # 0
  /\ Len(pendingDeletes) < MaxDeletes
  /\ pendingDeletes' = Append(pendingDeletes, sessionToDelete)
  /\ UNCHANGED <<pageVars, camVars, store, nextId, fetch, listing, pendingCreates, histVars>>

\* deleteDoc resolved: handleDeleteSession filters, handleConfirmDelete closes the modal
DeleteDocResolve(i) ==
  /\ i \in 1..Len(pendingDeletes)
  /\ store' = SelectSeq(store, LAMBDA d : d.id # pendingDeletes[i])
  /\ sessions' = deleteFilter(sessions, pendingDeletes[i])
  /\ sessionToDelete' = 0
  /\ pendingDeletes' = RemoveAt(pendingDeletes, i)
  /\ UNCHANGED <<emotionData, updateQueue, isRecording, sessionName, warningMessage,
                 camVars, nextId, fetch, listing, pendingCreates, histVars>>

\* handleDeleteSession filtering the list although deleteDoc rejected
DeleteDocRejectRemoves(i) ==
  /\ i \in 1..Len(pendingDeletes)
  /\ sessions' = deleteFilter(sessions, pendingDeletes[i])
  /\ sessionToDelete' = 0
  /\ pendingDeletes' = RemoveAt(pendingDeletes, i)
  /\ UNCHANGED <<emotionData, updateQueue, isRecording, sessionName, warningMessage,
                 camVars, store, nextId, fetch, listing, pendingCreates, histVars>>

\* deleteDoc rejected: caught and logged in handleDeleteSession
DeleteDocReject(i) ==
  /\ i \in 1..Len(pendingDeletes)
  /\ sessionToDelete' = 0
  /\ pendingDeletes' = RemoveAt(pendingDeletes, i)
  /\ UNCHANGED <<emotionData, updateQueue, sessions, isRecording, sessionName, warningMessage,
                 camVars, store, nextId, fetch, listing, pendingCreates, histVars>>

(***************************************************************************)
(* The program.                                                            *)
(***************************************************************************)
\* the recording session: page lifecycle, camera, classification, addDoc
NextSession ==
  \/ LoadModelsOk
  \/ LoadModelsFail
  \/ \E n \in Names \cup {""} : TypeSessionName(n)
  \/ ClickStart
  \/ StartWithoutName
  \/ ClickStop
  \/ \E i \in 1..MaxSessions : AddDocResolve(i)
  \/ \E i \in 1..MaxSessions : AddDocReject(i)
  \/ \E k \in 1..MaxSessions : GetDisplayMediaResolve(k)
  \/ \E k \in 1..MaxSessions : GetDisplayMediaReject(k)
  \/ WarningTimeout
  \/ AnimationFrame
  \/ \E highestIndex \in -1..MaxIndex : ClassificationDone(highestIndex)

\* the stored sessions: the mount-time listing and deletion
NextStore ==
  \/ GetDocsServe
  \/ GetDocsResolve
  \/ GetDocsReject
  \/ \E i \in 1..(MaxSessions + MaxDocs) : ClickDelete(i)
  \/ handleCancelDelete
  \/ handleConfirmDelete
  \/ \E i \in 1..MaxDeletes : DeleteDocResolve(i)
  \/ \E i \in 1..MaxDeletes : DeleteDocReject(i)

Next == NextSession \/ NextStore

Spec == Init /\ [][Next]_vars

\* The actions of NextStore read and write only sessions, store, fetch,
\* listing, sessionToDelete and pendingDeletes, and the actions of NextSession
\* read none of them (stopRecording reads sessions.length only for an empty
\* name, which the disabled button excludes), so the session's behaviours are
\* explored without the store's interleavings.
SpecSession == InitWith(<<>>) /\ [][NextSession]_vars

(***************************************************************************)
(* The listing and deletion alone, from every stored collection of up to   *)
(* MaxDocs documents of these shapes.                                      *)
(***************************************************************************)
DocShapes ==
  { [name |-> Str("a"), emotionData |-> Obj(Num(1), Num(0), Num(0)), rating |-> Num(5)],
    [name |-> Str("b"), emotionData |-> Obj(Num(0), Num(1), Num(1)), rating |-> Null],
    [name |-> Str("a"), emotionData |-> Obj(Str("1"), Num(0), Num(0)), rating |-> Num(5)],
    [name |-> Str("a"), emotionData |-> Obj(Num(1), Num(0), Undefined), rating |-> Num(5)],
    [name |-> Str("a"), emotionData |-> Undefined, rating |-> Num(5)],
    [name |-> Str("a"), emotionData |-> Null, rating |-> Num(5)],
    [name |-> Num(7), emotionData |-> Null, rating |-> Num(5)],
    [name |-> Str("a"), emotionData |-> Obj(Num(1), Num(0), Num(0)), rating |-> Undefined],
    [name |-> Str("a"), emotionData |-> Obj(Num(1), Num(0), Num(0)), rating |-> Num(7)] }

LoadStores ==
  UNION { { [i \in 1..n |-> [id |-> i, data |-> f[i]]] : f \in [1..n -> DocShapes] }
          : n \in 0..MaxDocs }

InitLoad == \E docs \in LoadStores : InitWith(docs)

SpecLoad == InitLoad /\ [][NextStore]_vars

(***************************************************************************)
(* The finalization alone, from a recording session holding any tally of   *)
(* up to MaxCount detections per label.                                    *)
(***************************************************************************)
InitRate ==
  /\ emotionData \in [happy : 0..MaxCount, sad : 0..MaxCount, angry : 0..MaxCount]
  /\ updateQueue = <<>>
  /\ sessions = <<>>
  /\ isRecording = TRUE
  /\ sessionName \in Names
  /\ warningMessage = ""
  /\ sessionToDelete = 0
  /\ model = "loaded"
  /\ camWarning = ""
  /\ srcObject = 1
  /\ streams = <<"live">>
  /\ rafId = FALSE
  /\ loops = [p \in 0..(frameDelay - 1) |-> IF p = 1 % frameDelay THEN 1 ELSE 0]
  /\ inflight = 0
  /\ clearTimers = 0
  /\ store = <<>>
  /\ nextId = 1
  /\ fetch = "done"
  /\ listing = <<>>
  /\ pendingCreates = <<>>
  /\ pendingDeletes = <<>>
  /\ sinceReset = emotionData
  /\ ignored = FALSE
  /\ windowCount = Total(emotionData)

NextRate ==
  \/ ClickStop
  \/ \E i \in 1..MaxSessions : AddDocResolve(i)
  \/ \E i \in 1..MaxSessions : AddDocReject(i)

SpecRate == InitRate /\ [][NextRate]_vars

(***************************************************************************)
(* The classifications of one sampled frame with MaxBatch faces, delivered *)
(* in any order and in any batches between renders, on top of any tally of *)
(* up to MaxTally detections per label, while the tick loop keeps running. *)
(***************************************************************************)
InitBatch ==
  /\ emotionData \in [happy : 0..MaxTally, sad : 0..MaxTally, angry : 0..MaxTally]
  /\ updateQueue = <<>>
  /\ sessions = <<>>
  /\ isRecording = TRUE
  /\ sessionName \in Names
  /\ warningMessage = ""
  /\ sessionToDelete = 0
  /\ model = "loaded"
  /\ camWarning = ""
  /\ srcObject = 1
  /\ streams = <<"live">>
  /\ rafId = FALSE
  /\ loops = [p \in 0..(frameDelay - 1) |-> IF p = 1 % frameDelay THEN 1 ELSE 0]
  /\ inflight = MaxBatch
  /\ clearTimers = 0
  /\ store = <<>>
  /\ nextId = 1
  /\ fetch = "done"
  /\ listing = <<>>
  /\ pendingCreates = <<>>
  /\ pendingDeletes = <<>>
  /\ sinceReset = emotionData
  /\ ignored = FALSE
  /\ windowCount = Total(emotionData)

NextBatch ==
  \/ \E highestIndex \in -1..MaxIndex : ClassificationQueued(highestIndex)
  \/ Render
  \/ AnimationFrame

SpecBatch == InitBatch /\ [][NextBatch]_vars

(***************************************************************************)
(* The session list under the store's interleavings: sessions are stopped  *)
(* and created while the mount-time listing and deletes are in flight.     *)
(* The camera delivers nothing here, so every tally is zero.               *)
(***************************************************************************)
NextList ==
  \/ NextStore
  \/ \E n \in Names \cup {""} : TypeSessionName(n)
  \/ ClickStart
  \/ ClickStop
  \/ \E i \in 1..MaxSessions : AddDocWrite(i)
  \/ \E i \in 1..MaxSessions : AddDocResolve(i)
  \/ \E i \in 1..MaxSessions : AddDocReject(i)

SpecList == Init /\ [][NextList]_vars

(***************************************************************************)
(* Claims.                                                                 *)
(***************************************************************************)

\* C1: the live tally counts, label by label, the detection callbacks with a
\* label of Happy, Sad or Angry delivered since the last reset: each counter
\* equals the number of callbacks of its own label, so their sum is the
\* number of valid-label callbacks.
C1_TallyCountsCallbacksSinceReset ==
  /\ emotionData.happy = sinceReset.happy
  /\ emotionData.sad = sinceReset.sad
  /\ emotionData.angry = sinceReset.angry

\* a reset has happened (a session was appended) and callbacks of two labels
\* were delivered after it
C1_Witness ==
  /\ sessions # <<>>
  /\ emotionData.happy = 1
  /\ emotionData.sad = 1

\* the rating table of the claim: one star, plus one for each of the ratios
\* 0.2, 0.4, 0.6, 0.8 that happy/total reaches
RatingTable(e) ==
  IF Total(e) = 0 THEN 1
  ELSE 1 + Cardinality({k \in {2, 4, 6, 8} : 10 * e.happy >= k * Total(e)})

\* C2: the rating of every finalized record (handed to addDoc or appended to
\* the list) is the table value of the tally stored in the same record; the
\* tally {8,1,1} rates 5 and {3,3,4} rates 2.
C2_RatingIsTableValue ==
  /\ \A i \in 1..Len(pendingCreates) :
       LET s == pendingCreates[i].session IN
       /\ s.rating = Num(RatingTable(s.emotionData))
       /\ s.emotionData = [happy |-> 8, sad |-> 1, angry |-> 1] => s.rating = Num(5)
       /\ s.emotionData = [happy |-> 3, sad |-> 3, angry |-> 4] => s.rating = Num(2)
       /\ s.emotionData = ZeroTally => s.rating = Num(1)
  /\ \A i \in 1..Len(sessions) :
       sessions[i].rating = Num(RatingTable(sessions[i].emotionData))

\* a session with the boundary tally {8,1,1} was finalized and appended
C2_Witness ==
  \E i \in 1..Len(sessions) :
    /\ sessions[i].emotionData = [happy |-> 8, sad |-> 1, angry |-> 1]
    /\ sessions[i].rating = Num(5)

\* C3: whenever a start request is accepted (isRecording turns true), the
\* live tally is zero at entry to Recording.
C3_TallyZeroAtStart ==
  [][(~isRecording /\ isRecording') => emotionData' = ZeroTally]_vars

\* C4: the counts of every finalized record are non-negative and sum to the
\* number of valid-label classifications delivered in its recording window.
C4_RecordCountsItsWindow ==
  \A i \in 1..Len(pendingCreates) :
    LET e == pendingCreates[i].session.emotionData IN
    /\ e.happy >= 0 /\ e.sad >= 0 /\ e.angry >= 0
    /\ Total(e) = pendingCreates[i].window

\* C5: a start request with an empty session name leaves the session Idle,
\* acquires no capture, sets the warning and leaves the tally unchanged.
C5_EmptyNameRejected ==
  [][StartWithoutName =>
       /\ ~isRecording'
       /\ streams' = streams
       /\ srcObject' = srcObject
       /\ rafId' = rafId
       /\ warningMessage' = NameWarning
       /\ emotionData' = emotionData]_vars

\* the rejected start has happened, with detections in the tally
C5_Witness ==
  /\ warningMessage = NameWarning
  /\ ~isRecording
  /\ sessionName = ""
  /\ Total(emotionData) > 0

\* C6: a start is never accepted while the previous session is Finalizing:
\* at most one session is recording or has its create call pending.
C6_OneSessionAtATime ==
  (IF isRecording THEN 1 ELSE 0) + Len(pendingCreates) <= 1

\* C7: while the session is not Recording, no stream that getDisplayMedia
\* delivered is live.
C7_NoLiveStreamWhenIdle ==
  ~isRecording => \A k \in 1..Len(streams) : streams[k] # "live"

\* the finalized session is in the list
InList(list, s) ==
  \E j \in 1..Len(list) :
    /\ list[j].name = s.name
    /\ list[j].emotionData = s.emotionData
    /\ list[j].rating = s.rating

\* C8 as stated: every accepted stop issues one create call, and when the
\* call completes, failed or not, one finalized session has been appended
\* and the session name is cleared.
C8_StopAppendsAlsoOnFailure ==
  [][/\ ClickStop => Len(pendingCreates') = Len(pendingCreates) + 1
     /\ \A i \in 1..MaxSessions :
          (AddDocResolve(i) \/ AddDocReject(i)) =>
            /\ Len(sessions') = Len(sessions) + 1
            /\ InList(sessions', pendingCreates[i].session)
            /\ sessionName' = ""]_vars

\* C8 amended: every accepted stop issues one create call carrying the name,
\* the tally snapshot and its rating; when the call succeeds that session is
\* appended under the id the store assigned; when it fails the list is left
\* unchanged; in both cases the session name is cleared.
C8_StopAppendsOnSuccessOnly ==
  [][/\ ClickStop =>
          /\ Len(pendingCreates') = Len(pendingCreates) + 1
          /\ SubSeq(pendingCreates', 1, Len(pendingCreates)) = pendingCreates
          /\ pendingCreates'[Len(pendingCreates')].session =
               [name |-> sessionName, emotionData |-> emotionData,
                rating |-> Num(RatingTable(emotionData))]
     /\ \A i \in 1..MaxSessions :
          /\ AddDocResolve(i) =>
               /\ Len(sessions') = Len(sessions) + 1
               /\ SubSeq(sessions', 1, Len(sessions)) = sessions
               /\ sessions'[Len(sessions')] =
                    [id |-> nextId,
                     name |-> pendingCreates[i].session.name,
                     emotionData |-> pendingCreates[i].session.emotionData,
                     rating |-> pendingCreates[i].session.rating]
               /\ sessionName' = ""
          /\ AddDocReject(i) =>
               /\ sessions' = sessions
               /\ sessionName' = ""]_vars

\* a create call has failed: detections were counted while recording, the
\* tally has been reset since, and the store never assigned an id
C8_Witness ==
  /\ windowCount > 0
  /\ emotionData = ZeroTally
  /\ pendingCreates = <<>>
  /\ ~isRecording
  /\ nextId = 1
  /\ sessions = <<>>
  /\ sessionName = ""

\* a well-formed record, as the claim defines it
WellFormed(data) ==
  /\ data.name.t = "string"
  /\ data.emotionData.t = "object"
  /\ data.emotionData.happy.t = "number"
  /\ data.emotionData.sad.t = "number"
  /\ data.emotionData.angry.t = "number"
  /\ data.rating.t \in {"null", "number"}

\* C9: when the listing arrives, the in-memory list becomes the sub-sequence
\* of its well-formed records, in their order.
C9_ListingKeepsWellFormed ==
  [][GetDocsResolve =>
       LET kept == SelectSeq(listing, LAMBDA d : WellFormed(d.data)) IN
       /\ Len(sessions') = Len(kept)
       /\ \A i \in 1..Len(kept) :
            /\ sessions'[i].id = kept[i].id
            /\ sessions'[i].name = kept[i].data.name.s
            /\ sessions'[i].emotionData.happy = kept[i].data.emotionData.happy.n
            /\ sessions'[i].emotionData.sad = kept[i].data.emotionData.sad.n
            /\ sessions'[i].emotionData.angry = kept[i].data.emotionData.angry.n
            /\ sessions'[i].rating = kept[i].data.rating]_vars

\* the list without its entries of id x, the others in their order
RECURSIVE Without(_, _)
Without(list, x) ==
  IF list = <<>> THEN <<>>
  ELSE IF Head(list).id = x THEN Without(Tail(list), x)
  ELSE <<Head(list)>> \o Without(Tail(list), x)

\* C10: confirming a delete changes nothing in the list; when the store's
\* delete call succeeds the list loses exactly the entries of that id, the
\* others keeping their order; when the call fails the list is unchanged.
C10_DeleteOnlyAfterStoreSucceeds ==
  [][/\ handleConfirmDelete => sessions' = sessions
     /\ \A i \in 1..MaxDeletes :
          /\ DeleteDocResolve(i) => sessions' = Without(sessions, pendingDeletes[i])
          /\ DeleteDocReject(i) => sessions' = sessions]_vars

\* a delete has succeeded in the store and removed the middle one of three
\* listed sessions
C10_Witness ==
  /\ fetch = "done"
  /\ Len(store) = 2
  /\ Len(sessions) = 2
  /\ sessions[1].id = 1
  /\ sessions[2].id = 3

\* a completed delete call for the id of this session
DeletedById(s) ==
  \E i \in 1..MaxDeletes : DeleteDocResolve(i) /\ pendingDeletes[i] = s.id

\* C12: a session in the list stays in it with its id, name, tally and
\* rating unchanged through every step (starts, stops, resets of the live
\* tally, the completion of the initial listing) except the completion of a
\* delete of its own id.
C12_ListedSessionStaysUntilDeleted ==
  [][\A j \in 1..Len(sessions) :
       \/ \E l \in 1..Len(sessions') : sessions'[l] = sessions[j]
       \/ DeletedById(sessions[j])]_vars

\* C13: every session in the list, created by a stop or loaded from the
\* store, has a rating that is null or one of 1, 2, 3, 4, 5.
C13_RatingInRange ==
  \A j \in 1..Len(sessions) :
    \/ sessions[j].rating = Null
    \/ sessions[j].rating.t = "number" /\ sessions[j].rating.n \in 1..5

\* C14: a detection callback whose label is none of Happy, Sad, Angry (the
\* undefined label of an arg-max index outside the label table included)
\* completes and leaves the three counters of the live tally, and the rest
\* of the page's state, unchanged.
C14_UnrecognisedLabelIgnored ==
  [][\A highestIndex \in -1..MaxIndex :
       (ClassificationDone(highestIndex)
          /\ labelAt(highestIndex) \notin {"Happy", "Sad", "Angry"}) =>
         /\ emotionData'.happy = emotionData.happy
         /\ emotionData'.sad = emotionData.sad
         /\ emotionData'.angry = emotionData.angry
         /\ pageVars' = pageVars
         /\ inflight' = inflight - 1]_vars

\* a callback with an unrecognised label was delivered after callbacks that
\* counted, and the counts are still there
C14_Witness ==
  /\ ignored
  /\ inflight = 0
  /\ emotionData = [happy |-> 1, sad |-> 0, angry |-> 1]

\* C17: classification completions commute: whatever the order in which the
\* in-flight classifications complete and however many of them arrive
\* between two renders (ticks of the frame clock interleaved), the tally
\* React shows after applying the queued updates has, for each label, the
\* number of callbacks of that label delivered since the last reset, so it
\* is a function of the multiset of delivered labels and no increment is
\* lost; two updaters applied in either order give the same tally.
C17_CompletionsCommute ==
  /\ processUpdateQueue(emotionData, updateQueue) = sinceReset
  /\ \A a, b \in {"Happy", "Sad", "Angry", "undefined"} :
       handleEmotionDetected(handleEmotionDetected(emotionData, a), b)
         = handleEmotionDetected(handleEmotionDetected(emotionData, b), a)

\* three completions of two labels arrived before one render, on top of a
\* tally that already held a count
C17_Witness ==
  /\ Len(updateQueue) = 3
  /\ updateQueue[1].emotion = "Sad"
  /\ updateQueue[2].emotion = "Happy"
  /\ updateQueue[3].emotion = "Sad"
  /\ emotionData.angry = 1
  /\ inflight = 0

\* the tick loops with a frame callback requested
RECURSIVE LoopsUpTo(_)
LoopsUpTo(p) == IF p < 0 THEN 0 ELSE loops[p] + LoopsUpTo(p - 1)

ActiveLoops == LoopsUpTo(frameDelay - 1) + (IF rafId THEN 1 ELSE 0)

\* C15: while the session is not Recording no tick loop has a frame callback
\* requested (the loop was cancelled when recording stopped), and at any
\* time at most one tick loop is active, so that a frame is sampled once
\* every frameDelay ticks.
C15_TickLoopCancelledOnStop ==
  /\ ~isRecording => ActiveLoops = 0
  /\ ActiveLoops <= 1

\* C16: once the model has failed to load, the model-load warning is
\* displayed in every later state (no capture-failure warning replaces it
\* and no timer clears it), no tick loop runs and no classification is in
\* flight, so no detection callback is delivered.
C16_ModelWarningPersists ==
  model = "failed" =>
    /\ camWarning = ModelWarning
    /\ ActiveLoops = 0
    /\ inflight = 0

\* C18: whenever the session is Recording the button, which then routes to
\* stopRecording, is enabled.
C18_StopEnabledWhileRecording ==
  isRecording => ~isDisabled

\* C19: under every interleaving of the listing, create and delete
\* completions, no two entries of the session list have the same id.
C19_SessionIdsDistinct ==
  \A i, j \in 1..Len(sessions) : i # j => sessions[i].id # sessions[j].id

\* C11: a getDisplayMedia failure while a session is Recording forces that
\* session Idle without creating a session record and shows the capture
\* warning, which the timer clears again; a failure reported for an earlier
\* start request (not the latest one, which is the recording one) leaves the
\* later-started session Recording.
C11_FailureEndsOnlyItsOwnSession ==
  [][/\ \A k \in 1..MaxSessions :
          (GetDisplayMediaReject(k) /\ isRecording) =>
            /\ k = Len(streams) =>
                 /\ ~isRecording'
                 /\ sessions' = sessions
                 /\ pendingCreates' = pendingCreates
                 /\ store' = store
                 /\ camWarning' = ScreenWarning
                 /\ clearTimers' = clearTimers + 1
            /\ k # Len(streams) => isRecording'
     /\ WarningTimeout => camWarning' = ""]_vars

====
